---- MODULE Spec2Model ----
(***************************************************************************)
(* Alert derivation and lifecycle of the web alerting application.        *)
(*                                                                         *)
(* Modelled parts:                                                         *)
(*   - the tables inventory_items and alerts (config/database.ts)          *)
(*   - the inventory CRUD routes and the Kafka topics they write to        *)
(*   - KafkaService's subscription and its message handler (config/kafka)  *)
(*   - AlertConsumer.processInventoryEvent and saveAlert (consumer)        *)
(*   - handleInventoryUpdate of the API server (index.ts)                  *)
(*   - AlertService: create, update, acknowledge, resolve, dismiss         *)
(*   - the WebSocket servers: WebSocketService and the API server's wss    *)
(*   - the frontend's WebSocketProvider: connect, subscribe, reconnect     *)
(*   - the consumer process's shutdown on SIGTERM and SIGINT               *)
(*                                                                         *)
(* Time is a counter of ticks, TicksPerDay ticks to a day; dates are       *)
(* whole days (midnight of that day).  UUIDs are row numbers.              *)
(***************************************************************************)
EXTENDS Integers, Sequences, FiniteSets, TLC

\* ------------------------------------------------------------------ bounds
MaxAlerts == 2
MaxNow == 1
MaxLog == 2
MaxEvents == 2
MaxCalls == 2
TicksPerDay == 2
MaxInbox == 1

\* ------------------------------------------------------------ value sets
Workers == {"w1", "w2"}
Items == {"i1", "i2"}
Actors == {"user-1", "system"}

Null == -1
NoActor == "null"
NoItem == [id |-> "null"]
NoCand == [type |-> "none"]
NoRow == [id |-> 0]

ItemTypes == {"medicine", "kitchen"}
AlertTypes == {"low_stock", "expiry_warning", "out_of_stock", "expired"}
Severities == {"low", "medium", "high", "critical"}
Statuses == {"active", "acknowledged", "resolved", "dismissed"}
OpenStatuses == {"active", "acknowledged"}

InventoryTopic == "inventory-updates"
RouteTopic == "inventory-events"
AlertTopic == "alerts"
Topics == {InventoryTopic, RouteTopic, AlertTopic}

\* Connections to the WebSocket servers and the topics they subscribe to.
Conns == {"A", "B", "C"}
WsTopics == {"alerts.medicine", "alerts.kitchen"}
NoSocket == [readyState |-> "none", asked |-> {}]

\* Inventory snapshots the operations are exercised with.
Counts == {0, 3, 8}

Snap(count, type, expiry) ==
  [currentCount |-> count, lowStockThreshold |-> 5,
   itemType |-> type, expiryDate |-> expiry]

Snapshots ==
  {Snap(3, "medicine", Null), Snap(0, "medicine", Null),
   Snap(8, "medicine", 1), Snap(0, "kitchen", 1), Snap(0, "kitchen", 0)}

Item(id, s) ==
  [id |-> id, currentCount |-> s.currentCount,
   lowStockThreshold |-> s.lowStockThreshold,
   itemType |-> s.itemType, expiryDate |-> s.expiryDate]

VARIABLES
  now,        \* wall clock, in ticks
  inventory,  \* table inventory_items: item id -> row or NoItem
  alerts,     \* table alerts: sequence of rows, the id is the position
  topics,     \* Kafka logs: topic -> sequence of messages
  offset,     \* KafkaService consumer: messages of InventoryTopic handled
  workers,    \* AlertConsumer.processInventoryEvent invocations in flight
  result,     \* what the latest AlertService call returned
  used,       \* how many events and service calls the run has spent
  subscription, \* KafkaService consumer: "running" or "crashed"
  clients,    \* WebSocketService.clients, in insertion order
  link,       \* the socket of each connection to WebSocketService
  wss,        \* wss.clients of the API server: the socket of each connection
  inbox,      \* what each connection has received from the servers
  browser     \* the frontend's WebSocketProvider: its socket and React state

vars == <<now, inventory, alerts, topics, offset, workers, result, used,
          subscription, clients, link, wss, inbox, browser>>

\* ------------------------------------------------------- rule evaluation

\* consumer/index.ts calculateDaysUntilExpiry: Math.ceil(diffTime / day)
calculateDaysUntilExpiry(expiryDate, today) ==
  LET diffTime == expiryDate * TicksPerDay - today
  IN  -((-diffTime) \div TicksPerDay)

LowStockSeverity(count) ==
  IF count = 0 THEN "critical" ELSE IF count <= 2 THEN "high" ELSE "medium"

ExpirySeverity(daysUntilExpiry) ==
  IF daysUntilExpiry <= 7 THEN "high"
  ELSE IF daysUntilExpiry <= 14 THEN "medium" ELSE "low"

createLowStockAlert(item) ==
  [type |-> "low_stock", severity |-> LowStockSeverity(item.currentCount),
   status |-> "active", title |-> "Low Stock Alert",
   itemId |-> item.id, itemType |-> item.itemType,
   currentCount |-> item.currentCount, threshold |-> item.lowStockThreshold,
   expiryDate |-> Null, daysUntilExpiry |-> Null]

createExpiryAlert(item, daysUntilExpiry) ==
  [type |-> "expiry_warning", severity |-> ExpirySeverity(daysUntilExpiry),
   status |-> "active", title |-> "Expiry Warning",
   itemId |-> item.id, itemType |-> item.itemType,
   currentCount |-> Null, threshold |-> Null,
   expiryDate |-> item.expiryDate, daysUntilExpiry |-> daysUntilExpiry]

createExpiredAlert(item) ==
  [type |-> "expired", severity |-> "critical",
   status |-> "active", title |-> "Expired Item",
   itemId |-> item.id, itemType |-> item.itemType,
   currentCount |-> Null, threshold |-> Null,
   expiryDate |-> item.expiryDate, daysUntilExpiry |-> Null]

createOutOfStockAlert(item) ==
  [type |-> "out_of_stock", severity |-> "critical",
   status |-> "active", title |-> "Out of Stock",
   itemId |-> item.id, itemType |-> item.itemType,
   currentCount |-> 0, threshold |-> Null,
   expiryDate |-> Null, daysUntilExpiry |-> Null]

\* The three checks of processInventoryEvent, in source order.  Stage 1 is
\* the low-stock check, 2 the expiry check, 3 the out-of-stock check.
LowStockCheck(item) == item.currentCount <= item.lowStockThreshold

ExpiryCheck(item) == item.itemType = "medicine" /\ item.expiryDate # Null

OutOfStockCheck(item) == item.currentCount = 0

ExpiryCandidate(item, today) ==
  LET d == calculateDaysUntilExpiry(item.expiryDate, today)
  IN  IF d <= 30 /\ d > 0 THEN createExpiryAlert(item, d)
      ELSE IF d <= 0 THEN createExpiredAlert(item)
      ELSE NoCand

\* The candidate of one stage, NoCand when its check does not fire.
StageCandidate(item, stage, today) ==
  IF stage = 1 THEN (IF LowStockCheck(item) THEN createLowStockAlert(item) ELSE NoCand)
  ELSE IF stage = 2 THEN (IF ExpiryCheck(item) THEN ExpiryCandidate(item, today) ELSE NoCand)
  ELSE (IF OutOfStockCheck(item) THEN createOutOfStockAlert(item) ELSE NoCand)

\* The first stage at or after `from` whose check fires; 4 when none does.
NextStage(item, from, today) ==
  IF from <= 1 /\ StageCandidate(item, 1, today) # NoCand THEN 1
  ELSE IF from <= 2 /\ StageCandidate(item, 2, today) # NoCand THEN 2
  ELSE IF from <= 3 /\ StageCandidate(item, 3, today) # NoCand THEN 3
  ELSE 4

\* ----------------------------------------------------------- alerts table

\* A row of table alerts as INSERT ... RETURNING * yields it: the columns
\* the statement does not name take their defaults.
NewRow(data, id, t) ==
  [id |-> id, type |-> data.type, severity |-> data.severity,
   status |-> data.status, title |-> data.title,
   itemId |-> data.itemId, itemType |-> data.itemType,
   currentCount |-> data.currentCount, threshold |-> data.threshold,
   expiryDate |-> data.expiryDate, daysUntilExpiry |-> data.daysUntilExpiry,
   acknowledgedBy |-> NoActor, acknowledgedAt |-> Null,
   resolvedBy |-> NoActor, resolvedAt |-> Null, dismissedAt |-> Null,
   createdAt |-> t, updatedAt |-> t]

\* item_id REFERENCES inventory_items(id)
ForeignKeyHolds(data) == inventory[data.itemId] # NoItem

\* An upsert that rewrites the open alert of the same item and kind as a
\* new active one.
InsertAlert_Reopen(table, data, t) ==
  LET open == {i \in DOMAIN table : table[i].itemId = data.itemId /\ table[i].type = data.type
                                     /\ table[i].status \in OpenStatuses}
  IN  IF open = {} THEN Append(table, NewRow(data, Len(table) + 1, t))
      ELSE Append([i \in DOMAIN table |-> IF i \in open THEN NewRow(data, i, t) ELSE table[i]],
                  NewRow(data, Len(table) + 1, t))

\* saveAlert's statement: INSERT INTO alerts (...) VALUES (...)
InsertAlert(table, data, t) == Append(table, NewRow(data, Len(table) + 1, t))

IsOpen(row) == row.status \in OpenStatuses

\* ------------------------------------------- AlertConsumer (consumer/index.ts)

IdleWorker ==
  [pc |-> "idle", item |-> NoItem, stage |-> 0, cand |-> NoCand,
   saved |-> NoRow, produced |-> <<>>, checkedAt |-> Null, kind |-> "none"]

\* The synchronous run of processInventoryEvent from stage `from` up to its
\* next await (the INSERT of the next candidate) or to its end.
RunFrom(wk, from, t) ==
  LET s == NextStage(wk.item, from, t)
      checked == from <= 2 /\ s >= 2
      c == StageCandidate(wk.item, s, t)
  IN  IF s = 4 THEN IdleWorker
      ELSE [wk EXCEPT !.pc = "saving", !.stage = s, !.cand = c, !.saved = NoRow,
                      !.checkedAt = IF checked THEN t ELSE wk.checkedAt,
                      !.produced = Append(wk.produced, [type |-> c.type, severity |-> c.severity])]

\* catch (error) { logger.error(...) } of processInventoryEvent
Caught(wk) == IdleWorker

\* The types of an InventoryEvent the operations are exercised with.
EventKinds == {"inventory.updated", "inventory.deleted"}

\* processInventoryEvent(event) is called with an event of type `kind`
\* about item `id`; the type is logged and never tested.
ProcessInventoryEvent(w, kind, id, snap) ==
  /\ workers[w].pc = "idle"
  /\ used.events < MaxEvents
  /\ used' = [used EXCEPT !.events = @ + 1]
  /\ workers' = [workers EXCEPT ![w] =
                   RunFrom([IdleWorker EXCEPT !.item = Item(id, snap), !.kind = kind], 1, now)]
  /\ UNCHANGED <<now, inventory, alerts, topics, offset, result, subscription, clients, link, wss, inbox, browser>>

\* A saveAlert that goes on to publish its alert after the INSERT threw.
SaveAlertInsert_PublishAnyway(w) ==
  /\ workers[w].pc = "saving"
  /\ \/ /\ ForeignKeyHolds(workers[w].cand)
        /\ Len(alerts) < MaxAlerts
        /\ alerts' = InsertAlert(alerts, workers[w].cand, now)
        /\ workers' = [workers EXCEPT ![w].pc = "publishing",
                                      ![w].saved = alerts'[Len(alerts')]]
     \/ /\ alerts' = alerts
        /\ workers' = [workers EXCEPT ![w].pc = "publishing",
                                      ![w].saved = NewRow(workers[w].cand, Len(alerts) + 1, now)]
  /\ UNCHANGED <<now, inventory, topics, offset, result, used, subscription, clients, link, wss, inbox, browser>>

\* saveAlert, first half: the INSERT succeeds or throws.
SaveAlertInsert(w) ==
  /\ workers[w].pc = "saving"
  /\ \/ /\ ForeignKeyHolds(workers[w].cand)
        /\ Len(alerts) < MaxAlerts
        /\ alerts' = InsertAlert(alerts, workers[w].cand, now)
        /\ workers' = [workers EXCEPT ![w].pc = "publishing",
                                      ![w].saved = alerts'[Len(alerts')]]
     \/ /\ alerts' = alerts
        /\ workers' = [workers EXCEPT ![w] = Caught(workers[w])]
  /\ UNCHANGED <<now, inventory, topics, offset, result, used, subscription, clients, link, wss, inbox, browser>>

\* KafkaService.sendMessage: producer.send appends to the topic or throws.
AlertEvent(row) == [id |-> row.id, type |-> "alert.created", data |-> row]

\* saveAlert, second half: kafkaService.sendAlertEvent, then the caller
\* goes on with the remaining checks.
SaveAlertPublish(w) ==
  /\ workers[w].pc = "publishing"
  /\ \/ /\ Len(topics[AlertTopic]) < MaxLog
        /\ topics' = [topics EXCEPT ![AlertTopic] = Append(@, AlertEvent(workers[w].saved))]
        /\ workers' = [workers EXCEPT ![w] = RunFrom(workers[w], workers[w].stage + 1, now)]
     \/ /\ topics' = topics
        /\ workers' = [workers EXCEPT ![w] = Caught(workers[w])]
  /\ UNCHANGED <<now, inventory, alerts, offset, result, used, subscription, clients, link, wss, inbox, browser>>

\* process.on('SIGTERM' | 'SIGINT') -> shutdown(): isRunning = false and
\* process.exit(0).  Every invocation in flight stops at the await it is
\* suspended on, and the Kafka subscription of the process ends with it.
Shutdown ==
  /\ \E w \in Workers : workers[w].pc # "exited"
  /\ workers' = [w \in Workers |-> [workers[w] EXCEPT !.pc = "exited"]]
  /\ subscription' = "stopped"
  /\ UNCHANGED <<now, inventory, alerts, topics, offset, result, used, clients, link, wss, inbox, browser>>

\* ------------------------------------------------ AlertService (part_006)

\* createAlert: INSERT with id = uuidv4() and created_at = now
createAlert(table, data, t) == Append(table, NewRow(data, Len(table) + 1, t))

\* acknowledgeAlert: UPDATE alerts SET status, acknowledged_by,
\* acknowledged_at, updated_at WHERE id
AcknowledgeRow(row, acknowledgedBy, t) ==
  [row EXCEPT !.status = "acknowledged", !.acknowledgedBy = acknowledgedBy,
              !.acknowledgedAt = t, !.updatedAt = t]

\* A resolve that only takes alerts still active.
ResolveRow_ActiveOnly(row, resolvedBy, t) ==
  IF row.status = "active"
  THEN [row EXCEPT !.status = "resolved", !.resolvedBy = resolvedBy,
                   !.resolvedAt = t, !.updatedAt = t]
  ELSE row

\* resolveAlert: UPDATE alerts SET status, resolved_by, resolved_at, updated_at
ResolveRow(row, resolvedBy, t) ==
  [row EXCEPT !.status = "resolved", !.resolvedBy = resolvedBy,
              !.resolvedAt = t, !.updatedAt = t]

\* dismissAlert: UPDATE alerts SET status, dismissed_at, updated_at
DismissRow(row, t) ==
  [row EXCEPT !.status = "dismissed", !.dismissedAt = t, !.updatedAt = t]

\* updateAlert: the SET list holds every field the request defines
Undefined == "undefined"

UpdateRequests ==
  [status : Statuses \cup {Undefined}, severity : {Undefined}]
    \cup {[status |-> Undefined, severity |-> "low"]}

UpdateRow(row, data, t) ==
  [row EXCEPT !.status = IF data.status # Undefined THEN data.status ELSE @,
              !.severity = IF data.severity # Undefined THEN data.severity ELSE @,
              !.updatedAt = t]

AlertIds == 1..MaxAlerts

Found(id) == id \in DOMAIN alerts /\ alerts[id] # NoRow

\* A service that reports success when its UPDATE matched no row.
ServiceUpdate_NoRowsOk(id, row) ==
  /\ used.calls < MaxCalls
  /\ used' = [used EXCEPT !.calls = @ + 1]
  /\ \/ /\ result' = "error"
        /\ alerts' = alerts
     \/ /\ result' = "ok"
        /\ alerts' = IF Found(id) THEN [alerts EXCEPT ![id] = row] ELSE alerts
  /\ UNCHANGED <<now, inventory, topics, offset, workers, subscription, clients, link, wss, inbox, browser>>

\* One UPDATE ... WHERE id = $n RETURNING * of AlertService: the database
\* throws, or no row matches (null), or the row is rewritten.
ServiceUpdate(id, row) ==
  /\ used.calls < MaxCalls
  /\ used' = [used EXCEPT !.calls = @ + 1]
  /\ \/ /\ result' = "error"
        /\ alerts' = alerts
     \/ /\ ~Found(id)
        /\ result' = "null"
        /\ alerts' = alerts
     \/ /\ Found(id)
        /\ result' = "ok"
        /\ alerts' = [alerts EXCEPT ![id] = row]
  /\ UNCHANGED <<now, inventory, topics, offset, workers, subscription, clients, link, wss, inbox, browser>>

AcknowledgeAlert(id, acknowledgedBy) ==
  ServiceUpdate(id,
                IF Found(id) THEN AcknowledgeRow(alerts[id], acknowledgedBy, now) ELSE NoRow)

ResolveAlert(id, resolvedBy) ==
  ServiceUpdate(id,
                IF Found(id) THEN ResolveRow(alerts[id], resolvedBy, now) ELSE NoRow)

DismissAlert(id) ==
  ServiceUpdate(id,
                IF Found(id) THEN DismissRow(alerts[id], now) ELSE NoRow)

UpdateAlert(id, data) ==
  ServiceUpdate(id,
                IF Found(id) THEN UpdateRow(alerts[id], data, now) ELSE NoRow)

\* The HTTP status PATCH /:id/resolve answers with: 404 when the service
\* returned null, 500 when the service or the Kafka send threw.
RouteStatus(outcome, sent) ==
  IF outcome = "error" THEN 500
  ELSE IF outcome = "null" THEN 404
  ELSE IF sent THEN 200 ELSE 500

\* ------------------------------------------ API server (backend/src/index.ts)

\* handleInventoryUpdate builds its own low-stock alert
InventoryUpdateAlert(item) ==
  [type |-> "low_stock",
   severity |-> IF item.currentCount = 0 THEN "critical" ELSE "high",
   status |-> "active",
   title |-> IF item.currentCount = 0 THEN "Out of Stock" ELSE "Low Stock Alert",
   itemId |-> item.id, itemType |-> item.itemType,
   currentCount |-> item.currentCount, threshold |-> item.lowStockThreshold,
   expiryDate |-> Null, daysUntilExpiry |-> Null]

\* wss.clients.forEach(client => readyState === 1 && client.send(...)),
\* the loop of broadcast, handleInventoryUpdate and handleAlertCreated
WssBroadcast(boxes, message) ==
  [c \in DOMAIN boxes |->
     IF wss[c].readyState = "open" THEN Append(boxes[c], message) ELSE boxes[c]]

WssRoom == \A c \in Conns : wss[c].readyState = "open" => Len(inbox[c]) < MaxInbox

\* The 'alert' message of handleInventoryUpdate and handleAlertCreated
AlertMessage(alert) ==
  [type |-> "alert", topic |-> "none",
   data |-> [id |-> alert.id, itemType |-> alert.itemType]]

\* handleInventoryUpdate(data): reads the item, creates the alert when the
\* count is at or under the threshold and sends it to every open client; a
\* failure is caught and logged.
HandleInventoryUpdate(id) ==
  /\ used.events < MaxEvents
  /\ used' = [used EXCEPT !.events = @ + 1]
  /\ inventory[id] # NoItem
  /\ inventory[id].currentCount <= inventory[id].lowStockThreshold
  /\ \/ /\ Len(alerts) < MaxAlerts
        /\ WssRoom
        /\ alerts' = createAlert(alerts, InventoryUpdateAlert(inventory[id]), now)
        /\ inbox' = WssBroadcast(inbox, AlertMessage(alerts'[Len(alerts')]))
     \/ /\ alerts' = alerts
        /\ inbox' = inbox
  /\ UNCHANGED <<now, inventory, topics, offset, workers, result, subscription, clients, link, wss, browser>>

\* handleAlertCreated(data): sends data.alert to every open client
HandleAlertCreated(alert) ==
  /\ WssRoom
  /\ inbox' = WssBroadcast(inbox, AlertMessage(alert))
  /\ UNCHANGED <<now, inventory, alerts, topics, offset, workers, result, used,
                 subscription, clients, link, wss, browser>>

\* wss.on('connection')
WssConnect(c) ==
  /\ wss[c].readyState = "none"
  /\ wss' = [wss EXCEPT ![c].readyState = "open"]
  /\ UNCHANGED <<now, inventory, alerts, topics, offset, workers, result, used,
                 subscription, clients, link, inbox, browser>>

\* ws.on('message') with type 'subscribe': the server answers 'subscribed'
\* with the topics and keeps nothing; `asked` is what the connection has
\* been told it is subscribed to.
WssSubscribe(c, topic) ==
  /\ wss[c].readyState = "open"
  /\ wss' = [wss EXCEPT ![c].asked = @ \cup {topic}]
  /\ UNCHANGED <<now, inventory, alerts, topics, offset, workers, result, used,
                 subscription, clients, link, inbox, browser>>

\* ws.on('close'): the socket leaves wss.clients
WssClose(c) ==
  /\ wss[c].readyState = "open"
  /\ wss' = [wss EXCEPT ![c].readyState = "closed"]
  /\ UNCHANGED <<now, inventory, alerts, topics, offset, workers, result, used,
                 subscription, clients, link, inbox, browser>>

\* -------------------------------------------- inventory routes (part_002)

RouteEvent(type, item) == [type |-> type, itemId |-> item.id, data |-> item]

\* The route's broadcast({type, data: item, timestamp})
RouteMessage(type, item) ==
  [type |-> type, topic |-> "none", data |-> [id |-> item.id, itemType |-> item.itemType]]

\* The route's kafkaProducer.send to 'inventory-events', appended or
\* thrown, and after a send that succeeded the broadcast to the clients.
RouteSend(type, item) ==
  \/ /\ Len(topics[RouteTopic]) < MaxLog
     /\ WssRoom
     /\ topics' = [topics EXCEPT ![RouteTopic] = Append(@, RouteEvent(type, item))]
     /\ inbox' = WssBroadcast(inbox, RouteMessage(type, item))
  \/ /\ topics' = topics
     /\ inbox' = inbox

\* POST /api/inventory: createItem, then the Kafka event and the broadcast
PostInventory(id, snap) ==
  /\ inventory[id] = NoItem
  /\ \/ /\ inventory' = [inventory EXCEPT ![id] = Item(id, snap)]
        /\ RouteSend("inventory_created", Item(id, snap))
     \/ UNCHANGED <<inventory, topics, inbox>>
  /\ UNCHANGED <<now, alerts, offset, workers, result, used, subscription, clients, link, wss, browser>>

\* PUT /api/inventory/:id with a new count: updateItem, then the Kafka
\* event and the broadcast
PutInventory(id, count) ==
  /\ inventory[id] # NoItem
  /\ \/ /\ inventory' = [inventory EXCEPT ![id].currentCount = count]
        /\ RouteSend("inventory_updated", inventory'[id])
     \/ UNCHANGED <<inventory, topics, inbox>>
  /\ UNCHANGED <<now, alerts, offset, workers, result, used, subscription, clients, link, wss, browser>>

\* DELETE FROM inventory_items WHERE id: the alerts of the item go with it
\* (item_id ... ON DELETE CASCADE); a deleted row leaves NoRow at its number.
CascadeDelete(table, id) ==
  [a \in DOMAIN table |->
     IF table[a] # NoRow /\ table[a].itemId = id THEN NoRow ELSE table[a]]

\* The event of the DELETE route carries the item id and no snapshot.
DeletedEvent(id) == [type |-> "inventory_deleted", itemId |-> id, data |-> NoItem]

\* DELETE /api/inventory/:id: deleteItem, then the Kafka event and the
\* broadcast
DeleteInventory(id) ==
  /\ inventory[id] # NoItem
  /\ \/ /\ inventory' = [inventory EXCEPT ![id] = NoItem]
        /\ alerts' = CascadeDelete(alerts, id)
        /\ \/ /\ Len(topics[RouteTopic]) < MaxLog
              /\ WssRoom
              /\ topics' = [topics EXCEPT ![RouteTopic] = Append(@, DeletedEvent(id))]
              /\ inbox' = WssBroadcast(inbox, [type |-> "inventory_deleted", topic |-> "none",
                                               data |-> [id |-> id, itemType |-> "none"]])
           \/ /\ topics' = topics
              /\ inbox' = inbox
     \/ UNCHANGED <<inventory, alerts, topics, inbox>>
  /\ UNCHANGED <<now, offset, workers, result, used, subscription, clients, link, wss, browser>>

\* ------------------------------------------------ KafkaService (config/kafka.ts)

\* sendMessage: value: JSON.stringify(message)
Stringify(event) == [raw |-> "json", event |-> event]

\* What JSON.parse('{}') gives: an event with every field undefined
NoEvent == [id |-> "null", type |-> "none", data |-> NoItem]

\* sendInventoryEvent: sendMessage to the topic KAFKA_TOPIC_INVENTORY_UPDATE
SendInventoryEvent(id) ==
  /\ inventory[id] # NoItem
  /\ Len(topics[InventoryTopic]) < MaxLog
  /\ topics' = [topics EXCEPT ![InventoryTopic] =
                  Append(@, Stringify([id |-> id, type |-> "inventory.updated",
                                       data |-> inventory[id]]))]
  /\ UNCHANGED <<now, inventory, alerts, offset, workers, result, used, subscription, clients, link, wss, inbox, browser>>

\* Values another producer may put on the topic: text that is no JSON, an
\* empty value, and an event without its data.
ForeignValues ==
  {[raw |-> "garbage", event |-> NoEvent],
   [raw |-> "empty", event |-> NoEvent],
   [raw |-> "json", event |-> [id |-> "e1", type |-> "inventory.updated", data |-> NoItem]]}

ForeignSend(value) ==
  /\ Len(topics[InventoryTopic]) < MaxLog
  /\ topics' = [topics EXCEPT ![InventoryTopic] = Append(@, value)]
  /\ UNCHANGED <<now, inventory, alerts, offset, workers, result, used, subscription, clients, link, wss, inbox, browser>>

\* JSON.parse(message.value?.toString() || '{}')
Parse(value) ==
  IF value.raw = "garbage" THEN [ok |-> FALSE, event |-> NoEvent]
  ELSE IF value.raw = "empty" THEN [ok |-> TRUE, event |-> NoEvent]
  ELSE [ok |-> TRUE, event |-> value.event]

\* The try block of the handler setupKafka subscribes: it parses the
\* message, logs event.data.id and calls the module's own
\* processInventoryEvent, which only logs.
HandlerBody(value) ==
  IF ~Parse(value).ok THEN "SyntaxError"
  ELSE IF Parse(value).event.data = NoItem THEN "TypeError"
  ELSE "done"

\* An eachMessage that lets the handler's error through.
eachMessage_Uncaught(value) ==
  IF HandlerBody(value) = "done" THEN "resolved" ELSE "rejected"

\* eachMessage of subscribeToTopic around that handler: an error of the
\* try block is caught and logged, by the handler and again by eachMessage.
eachMessage(value) ==
  IF HandlerBody(value) = "done" THEN "resolved" ELSE "resolved"

\* kafkajs hands the next message to eachMessage; the offset moves on when
\* eachMessage resolves, and the consumer stops when it rejects.
KafkaDeliver ==
  /\ subscription = "running"
  /\ offset < Len(topics[InventoryTopic])
  /\ IF eachMessage(topics[InventoryTopic][offset + 1]) = "resolved"
     THEN offset' = offset + 1 /\ subscription' = subscription
     ELSE offset' = offset /\ subscription' = "crashed"
  /\ UNCHANGED <<now, inventory, alerts, topics, workers, result, used, clients, link, wss, inbox, browser>>


\* ------------------------------------------------------------------ clock
Tick ==
  /\ now < MaxNow
  /\ now' = now + 1
  /\ UNCHANGED <<inventory, alerts, topics, offset, workers, result, used, subscription, clients, link, wss, inbox, browser>>

\* A call of alertService.createAlert(data)
AlertRequests ==
  {createLowStockAlert(Item("i1", Snap(3, "medicine", Null))),
   createOutOfStockAlert(Item("i2", Snap(0, "kitchen", 1)))}

CreateAlert(data) ==
  /\ \/ /\ ForeignKeyHolds(data)
        /\ Len(alerts) < MaxAlerts
        /\ alerts' = createAlert(alerts, data, now)
        /\ result' = "ok"
     \/ /\ alerts' = alerts
        /\ result' = "error"
  /\ UNCHANGED <<now, inventory, topics, offset, workers, used, subscription, clients, link, wss, inbox, browser>>

\* ------------------------------------------- WebSocketService (part_003)

\* What the servers push: the alert a message is about.
Payloads == {[id |-> 1, itemType |-> "medicine"], [id |-> 2, itemType |-> "kitchen"]}

\* The broadcasts the service is asked for: a topic and a message.
Publishes ==
  {[topic |-> "alerts.medicine", message |-> [id |-> 1, itemType |-> "medicine"]],
   [topic |-> "alerts.kitchen", message |-> [id |-> 2, itemType |-> "kitchen"]]}

\* inbox keeps the pushed messages only; the replies to a connection's own
\* requests (connection, subscribed, unsubscribed, pong) are left out.
UpdateMessage(topic, message) == [type |-> "update", topic |-> topic, data |-> message]

ClientIds == {clients[i].id : i \in DOMAIN clients}

\* this.clients.get(clientId)
ClientIndex(c) == CHOOSE i \in DOMAIN clients : clients[i].id = c

\* this.clients.delete(clientId), on a sequence in insertion order
DeleteClient(registry, c) == SelectSeq(registry, LAMBDA cl : cl.id # c)

\* client.subscriptions.includes(topic)
Includes(list, topic) == \E i \in DOMAIN list : list[i] = topic

\* A subscribe that pushes the topic without looking for it first.
PushTopic_NoCheck(list, topic) == Append(list, topic)

\* subscribeClient: if (!client.subscriptions.includes(topic)) push(topic)
PushTopic(list, topic) == IF Includes(list, topic) THEN list ELSE Append(list, topic)

\* unsubscribeClient: index = indexOf(topic); if (index > -1) splice(index, 1)
SpliceTopic(list, topic) ==
  IF ~Includes(list, topic) THEN list
  ELSE LET index == CHOOSE i \in DOMAIN list :
                      list[i] = topic /\ \A j \in 1..(i - 1) : list[j] # topic
       IN  SubSeq(list, 1, index - 1) \o SubSeq(list, index + 1, Len(list))

\* app.ws('/ws', ...): a connection is registered with no subscriptions
Connect(c) ==
  /\ link[c] = "none"
  /\ link' = [link EXCEPT ![c] = "open"]
  /\ clients' = Append(clients, [id |-> c, subscriptions |-> <<>>])
  /\ UNCHANGED <<now, inventory, alerts, topics, offset, workers, result, used,
                 subscription, wss, inbox, browser>>

\* handleMessage 'subscribe' -> subscribeClient(clientId, [topic])
SubscribeClient(c, topic) ==
  /\ link[c] = "open"
  /\ c \in ClientIds
  /\ clients' = [clients EXCEPT ![ClientIndex(c)].subscriptions = PushTopic(@, topic)]
  /\ UNCHANGED <<now, inventory, alerts, topics, offset, workers, result, used,
                 subscription, link, wss, inbox, browser>>

\* handleMessage 'unsubscribe' -> unsubscribeClient(clientId, [topic])
UnsubscribeClient(c, topic) ==
  /\ link[c] = "open"
  /\ c \in ClientIds
  /\ clients' = [clients EXCEPT ![ClientIndex(c)].subscriptions = SpliceTopic(@, topic)]
  /\ UNCHANGED <<now, inventory, alerts, topics, offset, workers, result, used,
                 subscription, link, wss, inbox, browser>>

\* handleMessage 'ping': the service answers 'pong' and records nothing
\* about the connection.
Ping(c) ==
  /\ link[c] = "open"
  /\ c \in ClientIds
  /\ UNCHANGED vars

\* The socket dies; its close event has not been dispatched yet and a send
\* on it throws.
SocketDrop(c) ==
  /\ link[c] = "open"
  /\ link' = [link EXCEPT ![c] = "closing"]
  /\ UNCHANGED <<now, inventory, alerts, topics, offset, workers, result, used,
                 subscription, clients, wss, inbox, browser>>

\* The handlers of both 'close' and 'error' remove the client from the
\* registry.
DisconnectedRegistry_Keep(registry, c) == registry

\* ws.on('close') / ws.on('error'): this.clients.delete(clientId)
DisconnectedRegistry(registry, c) == DeleteClient(registry, c)

Disconnect(c) ==
  /\ link[c] \in {"open", "closing"}
  /\ link' = [link EXCEPT ![c] = "closed"]
  /\ clients' = DisconnectedRegistry(clients, c)
  /\ UNCHANGED <<now, inventory, alerts, topics, offset, workers, result, used,
                 subscription, wss, inbox, browser>>

\* client.ws.send throws on a socket that is not open
SendThrows(c) == link[c] # "open"

\* A broadcast that gives up at the first send that throws.
BroadcastFrom_StopOnError(registry, boxes, remaining, topic, message) ==
  LET failed == {i \in DOMAIN remaining :
                   Includes(remaining[i].subscriptions, topic) /\ SendThrows(remaining[i].id)}
      stop == IF failed = {} THEN Len(remaining) + 1
              ELSE CHOOSE i \in failed : \A j \in failed : i <= j
      got == {remaining[i].id : i \in {j \in DOMAIN remaining :
                 j < stop /\ Includes(remaining[j].subscriptions, topic)}}
      gone == {remaining[i].id : i \in {j \in DOMAIN remaining : j = stop}}
  IN  [clients |-> SelectSeq(registry, LAMBDA cl : cl.id \notin gone),
       inbox |-> [c \in DOMAIN boxes |->
                    IF c \in got THEN Append(boxes[c], UpdateMessage(topic, message))
                    ELSE boxes[c]]]

\* broadcastToTopic's this.clients.forEach(...): the clients still to visit
\* are `remaining`; a subscribed client is sent the update, and deleted from
\* the registry when the send throws.
RECURSIVE BroadcastFrom(_, _, _, _, _)
BroadcastFrom(registry, boxes, remaining, topic, message) ==
  IF remaining = <<>> THEN [clients |-> registry, inbox |-> boxes]
  ELSE LET client == Head(remaining)
       IN  IF ~Includes(client.subscriptions, topic)
           THEN BroadcastFrom(registry, boxes, Tail(remaining), topic, message)
           ELSE IF SendThrows(client.id)
           THEN BroadcastFrom(DeleteClient(registry, client.id), boxes,
                              Tail(remaining), topic, message)
           ELSE BroadcastFrom(registry,
                              [boxes EXCEPT ![client.id] =
                                 Append(@, UpdateMessage(topic, message))],
                              Tail(remaining), topic, message)

\* Every subscribed client whose send will succeed has room in its inbox.
InboxRoom(receivers) == \A c \in receivers : Len(inbox[c]) < MaxInbox

BroadcastToTopic(topic, message) ==
  LET done == BroadcastFrom(clients, inbox, clients, topic, message)
  IN  /\ InboxRoom({c \in ClientIds : Includes(clients[ClientIndex(c)].subscriptions, topic)
                                       /\ ~SendThrows(c)})
      /\ clients' = done.clients
      /\ inbox' = done.inbox
      /\ UNCHANGED <<now, inventory, alerts, topics, offset, workers, result, used,
                     subscription, link, wss, browser>>

\* ------------------------------ WebSocketProvider (WebSocketContext.tsx)

\* The effect that defines connectWebSocket runs once (dependency list []),
\* so the handlers it creates read the `subscriptions` and `isConnected`
\* of the first render: the initial values of useState.
CapturedSubscriptions == <<>>

CapturedIsConnected == FALSE

\* The service handling {type: 'subscribe', topics}: subscribeClient's
\* topics.forEach on the client's list.
RECURSIVE SubscribeAll(_, _)
SubscribeAll(list, topicList) ==
  IF topicList = <<>> THEN list
  ELSE SubscribeAll(PushTopic(list, Head(topicList)), Tail(topicList))

\* connectWebSocket(): a new socket, which the service registers under a
\* new client id with no subscriptions; onopen sets isConnected and, when
\* the subscriptions it reads are not empty, sends a subscribe for them.
ConnectWebSocket(c) ==
  /\ link[c] = "none"
  /\ link' = [link EXCEPT ![c] = "open"]
  /\ clients' = Append(clients,
                       [id |-> c,
                        subscriptions |-> IF Len(CapturedSubscriptions) > 0
                                          THEN SubscribeAll(<<>>, CapturedSubscriptions)
                                          ELSE <<>>])
  /\ browser' = [browser EXCEPT !.socket = c, !.isConnected = TRUE, !.timer = FALSE]
  /\ UNCHANGED <<now, inventory, alerts, topics, offset, workers, result, used,
                 subscription, wss, inbox>>

\* The provider mounts: the effect calls connectWebSocket().
Mount ==
  /\ browser.socket = "none"
  /\ ~browser.timer
  /\ \E c \in Conns : ConnectWebSocket(c)

\* subscribe(topics): with a socket and isConnected, the topics are merged
\* into the subscriptions state and a subscribe message is sent, which the
\* service handles.
BrowserSubscribe(topic) ==
  /\ browser.socket # "none"
  /\ browser.isConnected
  /\ browser' = [browser EXCEPT !.subscriptions = PushTopic(@, topic)]
  /\ clients' = IF browser.socket \in ClientIds
                THEN [clients EXCEPT ![ClientIndex(browser.socket)].subscriptions =
                        PushTopic(@, topic)]
                ELSE clients
  /\ UNCHANGED <<now, inventory, alerts, topics, offset, workers, result, used,
                 subscription, link, wss, inbox>>

\* The connection closes: the service deletes the client, and onclose sets
\* isConnected to false and starts the 5 second timer.
OnClose ==
  /\ browser.socket # "none"
  /\ browser.isConnected
  /\ link' = [link EXCEPT ![browser.socket] = "closed"]
  /\ clients' = DisconnectedRegistry(clients, browser.socket)
  /\ browser' = [browser EXCEPT !.isConnected = FALSE, !.timer = TRUE]
  /\ UNCHANGED <<now, inventory, alerts, topics, offset, workers, result, used,
                 subscription, wss, inbox>>

\* The timer fires: if (!isConnected) connectWebSocket()
Reconnect ==
  /\ browser.timer
  /\ ~CapturedIsConnected
  /\ \E c \in Conns : ConnectWebSocket(c)

\* --------------------------------------------------------- specifications

Fresh ==
  /\ now = 0
  /\ alerts = <<>>
  /\ topics = [t \in Topics |-> <<>>]
  /\ offset = 0
  /\ workers = [w \in Workers |-> IdleWorker]
  /\ result = "none"
  /\ used = [events |-> 0, calls |-> 0]
  /\ subscription = "running"
  /\ clients = <<>>
  /\ link = [c \in Conns |-> "none"]
  /\ wss = [c \in Conns |-> NoSocket]
  /\ inbox = [c \in Conns |-> <<>>]
  /\ browser = [socket |-> "none", isConnected |-> FALSE, subscriptions |-> <<>>,
                timer |-> FALSE]

\* The services start on empty tables.
Init ==
  /\ Fresh
  /\ inventory = [i \in Items |-> NoItem]

\* The tables after the inventory has been stocked.
InitStocked ==
  /\ Fresh
  /\ inventory = [i \in Items |->
                    IF i = "i1" THEN Item(i, Snap(3, "medicine", Null))
                    ELSE Item(i, Snap(0, "kitchen", 1))]

\* The two handlers of inventory events and the operators acknowledging
\* and resolving what they raise.
Next ==
  \/ Tick
  \/ \E id \in Items : HandleInventoryUpdate(id)
  \/ \E w \in Workers, id \in Items, snap \in Snapshots :
       ProcessInventoryEvent(w, "inventory.updated", id, snap)
  \/ \E w \in Workers : SaveAlertInsert(w)
  \/ \E w \in Workers : SaveAlertPublish(w)
  \/ \E id \in AlertIds, by \in Actors : AcknowledgeAlert(id, by)
  \/ \E id \in AlertIds, by \in Actors : ResolveAlert(id, by)

Spec == InitStocked /\ [][Next]_vars

\* The operations of AlertService on the alerts table.
NextStore ==
  \/ Tick
  \/ \E data \in AlertRequests : CreateAlert(data)
  \/ \E id \in AlertIds, by \in Actors : AcknowledgeAlert(id, by)
  \/ \E id \in AlertIds, by \in Actors : ResolveAlert(id, by)
  \/ \E id \in AlertIds : DismissAlert(id)
  \/ \E id \in AlertIds, data \in UpdateRequests : UpdateAlert(id, data)

SpecStore == InitStocked /\ [][NextStore]_vars

\* The inventory routes, the Kafka topics and the subscription on them.
NextPipeline ==
  \/ \E id \in Items, snap \in Snapshots : PostInventory(id, snap)
  \/ \E id \in Items, count \in Counts : PutInventory(id, count)
  \/ \E id \in Items : SendInventoryEvent(id)
  \/ KafkaDeliver

SpecPipeline == Init /\ [][NextPipeline]_vars

\* The WebSocketService: connections, subscriptions and broadcasts.
NextHub ==
  \/ \E c \in Conns : Connect(c)
  \/ \E c \in Conns, t \in WsTopics : SubscribeClient(c, t)
  \/ \E c \in Conns, t \in WsTopics : UnsubscribeClient(c, t)
  \/ \E c \in Conns : SocketDrop(c)
  \/ \E c \in Conns : Disconnect(c)
  \/ \E p \in Publishes : BroadcastToTopic(p.topic, p.message)

SpecHub == Init /\ [][NextHub]_vars

\* The API server's WebSocket clients and the handlers that push to them.
NextPush ==
  \/ \E c \in Conns : WssConnect(c)
  \/ \E c \in Conns, t \in WsTopics : WssSubscribe(c, t)
  \/ \E c \in Conns : WssClose(c)
  \/ \E id \in Items : HandleInventoryUpdate(id)
  \/ \E alert \in Payloads : HandleAlertCreated(alert)

SpecPush == InitStocked /\ [][NextPush]_vars

\* The consumer on updated and deleted events, and the DELETE route.
DeleteSnapshots == {Snap(3, "medicine", Null), Snap(8, "medicine", Null)}

NextDelete ==
  \/ \E w \in Workers, kind \in EventKinds, id \in Items, snap \in DeleteSnapshots :
       ProcessInventoryEvent(w, kind, id, snap)
  \/ \E w \in Workers : SaveAlertInsert(w)
  \/ \E w \in Workers : SaveAlertPublish(w)
  \/ \E id \in AlertIds : AcknowledgeAlert(id, "user-1")
  \/ \E id \in Items : DeleteInventory(id)

SpecDelete == InitStocked /\ [][NextDelete]_vars

\* The consumer next to the WebSocketService and its subscribers.
NextNotify ==
  \/ \E c \in Conns : Connect(c)
  \/ \E c \in Conns, t \in WsTopics : SubscribeClient(c, t)
  \/ \E w \in Workers, id \in Items :
       ProcessInventoryEvent(w, "inventory.updated", id, inventory[id])
  \/ \E w \in Workers : SaveAlertInsert(w)
  \/ \E w \in Workers : SaveAlertPublish(w)

SpecNotify == InitStocked /\ [][NextNotify]_vars

\* The subscription of KafkaService on the inventory topic and its producers.
NextConsume ==
  \/ Tick
  \/ \E id \in Items : SendInventoryEvent(id)
  \/ \E value \in ForeignValues : ForeignSend(value)
  \/ KafkaDeliver

SpecConsume == InitStocked /\ [][NextConsume]_vars

\* The scenario of one item with threshold 10 whose count goes to 8 and
\* then to 0, each change reaching the consumer as an updated event.
ScenarioSnapshots ==
  {[currentCount |-> 8, lowStockThreshold |-> 10, itemType |-> "kitchen", expiryDate |-> Null],
   [currentCount |-> 0, lowStockThreshold |-> 10, itemType |-> "kitchen", expiryDate |-> Null]}

NextScenario ==
  \/ \E w \in Workers, id \in Items, snap \in ScenarioSnapshots :
       ProcessInventoryEvent(w, "inventory.updated", id, snap)
  \/ \E w \in Workers : SaveAlertInsert(w)
  \/ \E w \in Workers : SaveAlertPublish(w)

SpecScenario == InitStocked /\ [][NextScenario]_vars

\* The consumer process and the signal that ends it.
NextShutdown ==
  \/ \E w \in Workers, id \in Items :
       ProcessInventoryEvent(w, "inventory.updated", id, inventory[id])
  \/ \E w \in Workers : SaveAlertInsert(w)
  \/ \E w \in Workers : SaveAlertPublish(w)
  \/ Shutdown

SpecShutdown == InitStocked /\ [][NextShutdown]_vars

\* The WebSocketService with connections that go dead without a close or
\* an error event and without a broadcast reaching them.  The service
\* handles whatever it can.
NextHeartbeat ==
  \/ \E c \in Conns : Connect(c)
  \/ \E c \in Conns, t \in WsTopics : SubscribeClient(c, t)
  \/ \E c \in Conns : Ping(c)
  \/ \E c \in Conns : SocketDrop(c)

SpecHeartbeat == Init /\ [][NextHeartbeat]_vars /\ WF_vars(NextHeartbeat)

\* The frontend's provider against the WebSocketService.
NextReconnect ==
  \/ Mount
  \/ \E t \in WsTopics : BrowserSubscribe(t)
  \/ OnClose
  \/ Reconnect
  \/ \E p \in Publishes : BroadcastToTopic(p.topic, p.message)

SpecReconnect == Init /\ [][NextReconnect]_vars

\* ------------------------------------------------------------ properties

Range(seq) == {seq[i] : i \in DOMAIN seq}

Produced(w, type) == {i \in DOMAIN workers[w].produced : workers[w].produced[i].type = type}

SameKey(r1, r2) == r1.itemId = r2.itemId /\ r1.type = r2.type

SameCandidate(r1, r2) ==
  /\ SameKey(r1, r2)
  /\ r1.severity = r2.severity
  /\ r1.title = r2.title
  /\ r1.itemType = r2.itemType
  /\ r1.currentCount = r2.currentCount
  /\ r1.threshold = r2.threshold
  /\ r1.expiryDate = r2.expiryDate
  /\ r1.daysUntilExpiry = r2.daysUntilExpiry

\* C1: at every moment each (item id, alert kind) has at most one alert
\* whose status is active or acknowledged.
C1_OneOpenAlertPerItemKind ==
  \A i, j \in DOMAIN alerts :
    (IsOpen(alerts[i]) /\ IsOpen(alerts[j]) /\ SameKey(alerts[i], alerts[j])) => i = j

\* C2: when the consumer persists a candidate, every alert already in the
\* store keeps its status and its creation timestamp; an acknowledged alert
\* of the same item and kind stays acknowledged.
C2_PersistKeepsStatusAndCreation ==
  [][\A w \in Workers :
       SaveAlertInsert(w) =>
         \A id \in DOMAIN alerts :
           /\ id \in DOMAIN alerts'
           /\ alerts'[id].status = alerts[id].status
           /\ alerts'[id].createdAt = alerts[id].createdAt]_vars

\* A candidate has just been persisted for an item and kind whose earlier
\* alert was acknowledged before, and that alert is still acknowledged.
C2_Witness ==
  \E w \in Workers, a \in DOMAIN alerts :
    /\ workers[w].pc = "publishing"
    /\ a < workers[w].saved.id
    /\ SameKey(alerts[a], workers[w].saved)
    /\ alerts[a].status = "acknowledged"
    /\ alerts[a].acknowledgedAt >= 0
    /\ alerts[a].acknowledgedAt < workers[w].saved.createdAt

\* C3: persisting the identical candidate of an item twice gives one alert
\* and one published alert-change event: two publishes about identical
\* candidates whose alerts are open are the same publish.
C3_IdenticalCandidatePublishedOnce ==
  \A p, q \in DOMAIN topics[AlertTopic] :
    LET dp == topics[AlertTopic][p].data
        dq == topics[AlertTopic][q].data
    IN  (SameCandidate(dp, dq) /\ IsOpen(alerts[dp.id]) /\ IsOpen(alerts[dq.id]))
          => (p = q /\ dp.id = dq.id)

\* Every message of the subscribed inventory topic has been handled.
PipelineQuiescent == offset = Len(topics[InventoryTopic])

\* The inventory routes have emitted an event about item id.
RouteEmitted(id) == \E m \in Range(topics[RouteTopic]) : m.itemId = id

\* C4: a create or update through the inventory routes that emits its event
\* and leaves count <= threshold results in a persisted alert for the item
\* once the consumer has handled everything delivered to it.
C4_BreachingChangeIsAlerted ==
  PipelineQuiescent =>
    \A id \in Items :
      (/\ inventory[id] # NoItem
       /\ inventory[id].currentCount <= inventory[id].lowStockThreshold
       /\ RouteEmitted(id)) =>
        \E a \in DOMAIN alerts : alerts[a].itemId = id

\* C5: a snapshot with currentCount = 0 gives an out-of-stock alert and
\* never a low-stock alert.
C5_ZeroCountNeverLowStock ==
  /\ \A id \in DOMAIN alerts :
       alerts[id].currentCount = 0 => alerts[id].type = "out_of_stock"
  /\ \A w \in Workers :
       (workers[w].pc # "idle" /\ workers[w].item.currentCount = 0) =>
          /\ Produced(w, "low_stock") = {}
          /\ workers[w].stage = 3 => Cardinality(Produced(w, "out_of_stock")) = 1

\* C6: a snapshot with 0 < currentCount <= lowStockThreshold gives exactly
\* one low-stock candidate, of severity high iff currentCount <= 2 and
\* medium otherwise, on every path that derives a low-stock alert.
C6_LowStockSeverity ==
  /\ \A id \in DOMAIN alerts :
       (alerts[id].type = "low_stock" /\ 0 < alerts[id].currentCount
          /\ alerts[id].currentCount <= alerts[id].threshold) =>
         alerts[id].severity = IF alerts[id].currentCount <= 2 THEN "high" ELSE "medium"
  /\ \A w \in Workers :
       (workers[w].pc # "idle" /\ 0 < workers[w].item.currentCount
          /\ workers[w].item.currentCount <= workers[w].item.lowStockThreshold) =>
         Cardinality(Produced(w, "low_stock")) = 1

\* The days to expiry the event of worker w had when its expiry check ran.
DaysAtCheck(w) == calculateDaysUntilExpiry(workers[w].item.expiryDate, workers[w].checkedAt)

PastExpiryCheck(w) ==
  /\ workers[w].pc # "idle"
  /\ workers[w].stage = 3
  /\ workers[w].item.expiryDate # Null

\* C7: an item of either kind with an expiry date d days ahead, 0 < d <= 30,
\* gives exactly one expiry-warning candidate, of severity high for d <= 7,
\* medium for d <= 14 and low otherwise; for d > 30 it gives none.
C7_ExpiryWarningForEveryKind ==
  \A w \in Workers :
    PastExpiryCheck(w) =>
      LET d == DaysAtCheck(w)
          warnings == Produced(w, "expiry_warning")
      IN  /\ (0 < d /\ d <= 30) =>
               /\ Cardinality(warnings) = 1
               /\ \A i \in warnings :
                    workers[w].produced[i].severity =
                      IF d <= 7 THEN "high" ELSE IF d <= 14 THEN "medium" ELSE "low"
          /\ d > 30 => warnings = {} /\ Produced(w, "expired") = {}

\* C8: an item whose days to expiry are 0 or negative gives an expired
\* alert of severity critical and no expiry warning; no snapshot gives both.
C8_ExpiredIsCriticalNotWarning ==
  \A w \in Workers :
    /\ PastExpiryCheck(w) =>
         (DaysAtCheck(w) <= 0 =>
            /\ Produced(w, "expiry_warning") = {}
            /\ Cardinality(Produced(w, "expired")) = 1
            /\ \A i \in Produced(w, "expired") : workers[w].produced[i].severity = "critical")
    /\ ~(Produced(w, "expiry_warning") # {} /\ Produced(w, "expired") # {})

\* The transitions the lifecycle allows.
Legal(from, to) ==
  <<from, to>> \in {<<"active", "acknowledged">>, <<"active", "resolved">>,
                    <<"acknowledged", "resolved">>, <<"active", "dismissed">>,
                    <<"acknowledged", "dismissed">>}

\* C9: acknowledge on an active alert, resolve and dismiss on an active or
\* acknowledged alert succeed whenever the store answers, leave the alert in
\* the target status and record the acknowledger or the resolver.
C9_LegalTransitionsSucceed ==
  [][\A id \in DOMAIN alerts, by \in Actors :
       /\ (AcknowledgeAlert(id, by) /\ result' # "error"
             /\ Legal(alerts[id].status, "acknowledged")) =>
            /\ result' = "ok"
            /\ alerts'[id].status = "acknowledged"
            /\ alerts'[id].acknowledgedBy = by
       /\ (ResolveAlert(id, by) /\ result' # "error"
             /\ Legal(alerts[id].status, "resolved")) =>
            /\ result' = "ok"
            /\ alerts'[id].status = "resolved"
            /\ alerts'[id].resolvedBy = by
       /\ (DismissAlert(id) /\ result' # "error"
             /\ Legal(alerts[id].status, "dismissed")) =>
            /\ result' = "ok"
            /\ alerts'[id].status = "dismissed"]_vars

\* An alert that was acknowledged and then resolved, the last call having
\* succeeded.
C9_Witness ==
  \E id \in DOMAIN alerts :
    /\ result = "ok"
    /\ alerts[id].status = "resolved"
    /\ alerts[id].acknowledgedBy \in Actors
    /\ alerts[id].resolvedBy \in Actors
    /\ alerts[id].acknowledgedAt < alerts[id].resolvedAt

\* C10: a transition outside the five legal ones is rejected with
\* IllegalTransition and leaves the alert as it was, whichever operation
\* asks for it.
C10_IllegalTransitionsRejected ==
  [][\A id \in DOMAIN alerts, by \in Actors, data \in UpdateRequests :
       /\ (AcknowledgeAlert(id, by) /\ result' # "error"
             /\ ~Legal(alerts[id].status, "acknowledged")) =>
            (result' = "IllegalTransition" /\ alerts' = alerts)
       /\ (ResolveAlert(id, by) /\ result' # "error"
             /\ ~Legal(alerts[id].status, "resolved")) =>
            (result' = "IllegalTransition" /\ alerts' = alerts)
       /\ (DismissAlert(id) /\ result' # "error"
             /\ ~Legal(alerts[id].status, "dismissed")) =>
            (result' = "IllegalTransition" /\ alerts' = alerts)
       /\ (UpdateAlert(id, data) /\ result' # "error" /\ data.status # Undefined
             /\ ~Legal(alerts[id].status, data.status)) =>
            (result' = "IllegalTransition" /\ alerts' = alerts)]_vars

\* C11: once an alert has status resolved or dismissed, no store operation
\* gives it status active or acknowledged again.
C11_TerminalStaysTerminal ==
  [][\A id \in DOMAIN alerts :
       alerts[id].status \in {"resolved", "dismissed"} =>
         alerts'[id].status \notin OpenStatuses]_vars

\* Connection c is registered with a subscription to topic.
HubSubscribed(c, topic) ==
  \E i \in DOMAIN clients : clients[i].id = c /\ Includes(clients[i].subscriptions, topic)

\* C12: processing an event of kind deleted creates no alert; every alert
\* of the item that was open ends up resolved by "system"; and the alerts
\* of a deleted item stay in the store.
C12_DeletedItemResolvesOpenAlerts ==
  [][/\ \A w \in Workers :
          workers'[w].kind = "inventory.deleted" => workers'[w].produced = <<>>
     /\ \A w \in Workers, id \in Items, snap \in DeleteSnapshots :
          (ProcessInventoryEvent(w, "inventory.deleted", id, snap)
             /\ workers'[w].pc = "idle") =>
            \A a \in DOMAIN alerts :
              (alerts[a] # NoRow /\ alerts[a].itemId = id /\ IsOpen(alerts[a])) =>
                /\ alerts'[a] # NoRow
                /\ alerts'[a].status = "resolved"
                /\ alerts'[a].resolvedBy = "system"
     /\ \A id \in Items :
          DeleteInventory(id) =>
            \A a \in DOMAIN alerts :
              alerts[a] # NoRow => alerts'[a] # NoRow]_vars

\* C13 is about the topic an alert change belongs to: alerts.<item kind>.
TopicOfMessage(m) ==
  IF m.type = "update" THEN m.topic
  ELSE IF m.data.itemType = "medicine" THEN "alerts.medicine" ELSE "alerts.kitchen"

\* Connection c is subscribed to topic at one of the servers.
Subscribed(c, topic) ==
  \/ HubSubscribed(c, topic)
  \/ wss[c].readyState = "open" /\ topic \in wss[c].asked

Last(seq) == seq[Len(seq)]

\* C13: a message is delivered only to connections subscribed to its topic
\* when it is pushed, on every path that pushes alert changes.
C13_OnlySubscribersReceive ==
  [][\A c \in Conns :
       inbox'[c] # inbox[c] => Subscribed(c, TopicOfMessage(Last(inbox'[c])))]_vars

\* C14: when the consumer has created an alert and published its event, the
\* alert is also pushed to the hub: every registered connection subscribed
\* to the alert's topic receives it.
C14_CreatedAlertReachesSubscribers ==
  [][\A w \in Workers :
       (SaveAlertPublish(w) /\ topics' # topics) =>
         /\ Last(topics'[AlertTopic]).data = workers[w].saved
         /\ \A c \in Conns :
              (HubSubscribed(c, TopicOfMessage(AlertMessage(workers[w].saved)))
                 /\ ~SendThrows(c)) =>
                inbox'[c] # inbox[c]]_vars

\* The INSERT of worker w's candidate threw.
FailedInsert(w) == SaveAlertInsert(w) /\ alerts' = alerts

\* The send of worker w's alert event threw.
FailedPublish(w) == SaveAlertPublish(w) /\ topics' = topics

\* C15: the handler of an inventory event returns normally, which lets the
\* offset be committed, only from a step of its pipeline that succeeded:
\* never from a persist or a publish that failed.
C15_ReturnsOnlyAfterSuccess ==
  [][\A w \in Workers :
       (workers[w].pc # "idle" /\ workers'[w].pc = "idle") =>
         (~FailedInsert(w) /\ ~FailedPublish(w))]_vars

\* Topics other than the three the services use.
DeadLetterTopics == DOMAIN topics \ {InventoryTopic, RouteTopic, AlertTopic}

\* C16: after a store or publish error the event is either attempted again
\* (the worker stays at the failed step) or written to a dead-letter topic;
\* it is never dropped.
C16_FailureRetriedOrDeadLettered ==
  [][\A w \in Workers :
       (FailedInsert(w) \/ FailedPublish(w)) =>
         \/ workers'[w].pc = workers[w].pc
         \/ \E t \in DeadLetterTopics : topics'[t] # topics[t]]_vars

\* The messages of the inventory topic handed to the handler so far.
Delivered == {topics[InventoryTopic][i] : i \in 1..offset}

\* C17: a malformed inventory event that has been handled is on a
\* dead-letter topic, and it has created no alert.
C17_MalformedIsDeadLettered ==
  \A value \in Delivered :
    HandlerBody(value) # "done" =>
      /\ \E t \in DeadLetterTopics : value \in Range(topics[t])
      /\ alerts = <<>>

\* C18: an error in the handler of one message never stops the
\* subscription: it keeps running and every message still pending can be
\* delivered.
C18_SubscriptionSurvivesHandlerError ==
  /\ subscription = "running"
  /\ offset < Len(topics[InventoryTopic]) => ENABLED KafkaDeliver

\* The handler failed on the first message and the second one has been
\* delivered all the same.
C18_Witness ==
  /\ offset = 2
  /\ HandlerBody(topics[InventoryTopic][1]) # "done"
  /\ HandlerBody(topics[InventoryTopic][2]) = "done"

\* C19: in a broadcast, a subscribed connection whose send fails is removed
\* from the registry, and every other subscribed connection receives the
\* message exactly once and stays registered.
C19_FailedSendDropsOnlyThatClient ==
  [][\A p \in Publishes :
       BroadcastToTopic(p.topic, p.message) =>
         \A c \in Conns :
           /\ (HubSubscribed(c, p.topic) /\ SendThrows(c)) =>
                /\ c \notin {clients'[i].id : i \in DOMAIN clients'}
                /\ inbox'[c] = inbox[c]
           /\ (HubSubscribed(c, p.topic) /\ ~SendThrows(c)) =>
                /\ inbox'[c] = Append(inbox[c], UpdateMessage(p.topic, p.message))
                /\ \E i \in DOMAIN clients' :
                     clients'[i] = clients[ClientIndex(c)]
           /\ ~HubSubscribed(c, p.topic) => inbox'[c] = inbox[c]]_vars

\* A broadcast has removed a connection whose send failed (its close event
\* is still to come) and another connection holds a message of a topic it
\* subscribes to.
C19_Witness ==
  \E c, d \in Conns :
    /\ c # d
    /\ link[c] = "closing"
    /\ c \notin ClientIds
    /\ inbox[d] # <<>>
    /\ HubSubscribed(d, inbox[d][1].topic)

\* C20: a disconnect removes the connection and all its subscriptions from
\* the registry and leaves the other entries as they were; nothing is
\* delivered to a disconnected connection afterwards.
C20_DisconnectClearsSubscriptions ==
  [][/\ \A c \in Conns :
          Disconnect(c) =>
            /\ \A t \in WsTopics : ~HubSubscribed(c, t)'
            /\ clients' = SelectSeq(clients, LAMBDA cl : cl.id # c)
     /\ \A c \in Conns :
          link[c] = "closed" =>
            /\ inbox'[c] = inbox[c]
            /\ c \notin {clients'[i].id : i \in DOMAIN clients'}]_vars

\* A connection that had received a message has disconnected, and another
\* one, still registered and subscribed, has received one.
C20_Witness ==
  \E c, d \in Conns :
    /\ c # d
    /\ link[c] = "closed"
    /\ inbox[c] # <<>>
    /\ link[d] = "open"
    /\ inbox[d] # <<>>
    /\ HubSubscribed(d, inbox[d][1].topic)
    /\ inbox[d] # inbox[c]

\* The alerts of kind `type` the store holds for item id.
AlertsOf(id, type) ==
  {a \in DOMAIN alerts : alerts[a] # NoRow /\ alerts[a].itemId = id /\ alerts[a].type = type}

\* C21: with threshold 10, the event with count 8 gives one low-stock alert
\* of severity medium and status active; the event with count 0 gives an
\* out-of-stock alert of severity critical and no further low-stock alert,
\* so the item never has two low-stock alerts, and the first one stays open.
C21_ZeroAfterLowKeepsOneLowStock ==
  /\ \A a \in DOMAIN alerts :
       /\ alerts[a].currentCount = 8 =>
            (alerts[a].type = "low_stock" /\ alerts[a].severity = "medium"
               /\ alerts[a].status = "active")
       /\ alerts[a].type = "out_of_stock" => alerts[a].severity = "critical"
       /\ alerts[a].type = "low_stock" => IsOpen(alerts[a])
  /\ \A id \in Items : Cardinality(AlertsOf(id, "low_stock")) <= 1
  /\ \A w \in Workers :
       (workers[w].pc # "idle" /\ workers[w].item.currentCount = 0) =>
         Produced(w, "low_stock") = {}

\* The severity the rule table gives an alert of this kind and inputs.
RuleSeverity(row) ==
  IF row.type = "low_stock" THEN LowStockSeverity(row.currentCount)
  ELSE IF row.type = "expiry_warning" THEN ExpirySeverity(row.daysUntilExpiry)
  ELSE "critical"

\* C22: in every reachable state the severity stored on each alert is the
\* one the rule table assigns to its kind, count, threshold and days to
\* expiry; no operation sets it to anything else.
C22_SeverityFollowsRuleTable ==
  \A a \in DOMAIN alerts :
    alerts[a] # NoRow => alerts[a].severity = RuleSeverity(alerts[a])

\* C23: acknowledging, resolving or dismissing an id that does not exist
\* leaves the alerts table as it was (no record created, none changed)
\* and, when the store answers, returns null, which the route turns into
\* a 404.
C23_MissingIdIsNotFound ==
  [][\A id \in AlertIds, by \in Actors :
       ((AcknowledgeAlert(id, by) \/ ResolveAlert(id, by) \/ DismissAlert(id))
          /\ ~Found(id)) =>
         /\ alerts' = alerts
         /\ result' # "error" =>
              /\ result' = "null"
              /\ \A sent \in BOOLEAN : RouteStatus(result', sent) = 404]_vars

\* An alert was acknowledged, and the call after it named an id that does
\* not exist and returned null.
C23_Witness ==
  /\ result = "null"
  /\ used.calls = 2
  /\ Len(alerts) = 1
  /\ alerts[1].status = "acknowledged"

\* Worker w was stopped by the exit of the process while it had an event
\* in hand.
Interrupted(w) == workers[w].pc = "exited" /\ workers[w].item # NoItem

\* C24: when the process stops on SIGTERM or SIGINT no event is in hand:
\* every worker has finished the persist and publish steps of its event,
\* and none is stopped between persisting an alert and publishing it.
C24_ShutdownFinishesCurrentEvent ==
  \A w \in Workers :
    /\ ~Interrupted(w)
    /\ workers[w].pc = "exited" => workers[w].saved = NoRow

\* C25: a registered connection that has gone dead (it answers nothing any
\* more) is eventually removed from the registry, with no broadcast to it
\* and no close or error event.
C25_DeadConnectionIsRemoved ==
  \A c \in Conns : (link[c] = "closing" /\ c \in ClientIds) ~> (c \notin ClientIds)

\* Worker w stops working on its event in this step.
StopsOnEvent(w) == workers[w].pc # "idle" /\ workers'[w].pc = "idle"

\* The stages whose check fires for worker w's event: its candidates.
Derived(w) == {s \in 1..3 : StageCandidate(workers[w].item, s, now) # NoCand}

\* How many candidates of its event worker w has persisted and published
\* once this step is done.
Committed(w) ==
  IF SaveAlertPublish(w) /\ topics' # topics
  THEN Len(workers[w].produced)
  ELSE Len(workers[w].produced) - 1

\* C26: when the consumer stops working on an event, by completing it or
\* by an error, either all of the event's candidates have been persisted
\* and published or none has; and the event of an item with count 0 is
\* never left without its out-of-stock alert.
C26_EventCommitsAllOrNothing ==
  [][\A w \in Workers :
       StopsOnEvent(w) =>
         /\ Committed(w) = Cardinality(Derived(w)) \/ Committed(w) = 0
         /\ workers[w].item.currentCount = 0 =>
              (workers[w].cand.type = "out_of_stock" /\ ~FailedInsert(w) /\ ~FailedPublish(w))]_vars

Acknowledged(c, topic) == wss[c].readyState = "open" /\ topic \in wss[c].asked

\* C28: a 'subscribed' acknowledgement for topic T is sent only with the
\* subscription registered; and while the connection stays open, every
\* alert pushed about T reaches it as an 'update' message carrying T.
C28_AcknowledgedSubscriptionDelivers ==
  [][\A c \in Conns, topic \in WsTopics :
       /\ (WssSubscribe(c, topic) /\ wss' # wss) => HubSubscribed(c, topic)'
       /\ \A alert \in Payloads :
            (/\ Acknowledged(c, topic)
             /\ HandleAlertCreated(alert)
             /\ TopicOfMessage(AlertMessage(alert)) = topic) =>
              /\ inbox'[c] # inbox[c]
              /\ Last(inbox'[c]).type = "update"
              /\ Last(inbox'[c]).topic = topic]_vars

\* How often topic stands in the subscription list of connection c.
Registered(c, topic) ==
  Cardinality({i \in DOMAIN clients[ClientIndex(c)].subscriptions :
                 clients[ClientIndex(c)].subscriptions[i] = topic})

\* C29: an unsubscribe removes the topic from the connection's list
\* completely and leaves its other topics and every other connection's
\* entry as they were; a subscribe leaves the topic in the list once,
\* however often it is repeated; a broadcast gives a connection that is
\* not subscribed to the topic nothing and any connection at most one
\* message.
C29_UnsubscribeRemovesSubscribeOnce ==
  [][/\ \A c \in Conns, topic \in WsTopics :
          /\ UnsubscribeClient(c, topic) =>
               /\ Registered(c, topic)' = 0
               /\ \A other \in WsTopics \ {topic} :
                    Registered(c, other)' = Registered(c, other)
               /\ Len(clients') = Len(clients)
               /\ \A i \in DOMAIN clients : clients[i].id # c => clients'[i] = clients[i]
          /\ SubscribeClient(c, topic) =>
               /\ Registered(c, topic)' = 1
               /\ \A i \in DOMAIN clients : clients[i].id # c => clients'[i] = clients[i]
     /\ \A p \in Publishes :
          BroadcastToTopic(p.topic, p.message) =>
            \A c \in Conns :
              /\ Len(inbox'[c]) <= Len(inbox[c]) + 1
              /\ ~HubSubscribed(c, p.topic) => inbox'[c] = inbox[c]]_vars

\* A connection that received a message on a topic has unsubscribed from
\* it: it is still registered and subscribed to the other topic, and
\* another connection is still subscribed to the first one.
C29_Witness ==
  \E c, d \in Conns :
    /\ c # d
    /\ link[c] = "open"
    /\ c \in ClientIds
    /\ inbox[c] # <<>>
    /\ ~HubSubscribed(c, inbox[c][1].topic)
    /\ \E other \in WsTopics : other # inbox[c][1].topic /\ HubSubscribed(c, other)
    /\ HubSubscribed(d, inbox[c][1].topic)

\* C30: a close starts the reconnect timer; the reconnect opens a new
\* connection, and once it is open the service has that connection
\* subscribed to every topic the client was subscribed to before the
\* close, which is what makes the updates of those topics reach it again.
C30_ReconnectResubscribes ==
  [][/\ OnClose => browser'.timer
     /\ Reconnect =>
          /\ browser'.socket # browser.socket
          /\ link'[browser'.socket] = "open"
          /\ \A c \in Conns, t \in WsTopics :
               (c = browser'.socket /\ Includes(browser.subscriptions, t)) =>
                 HubSubscribed(c, t)']_vars

====
